---- MODULE Spec2Model ----
(***************************************************************************)
(* A model of the Athena pipeline orchestrator (src/core/main_runner.py)   *)
(* and of the interfaces of the collaborators it drives.                   *)
(*                                                                         *)
(* One run of AthenaRunner.run_pipeline is a sequential program; pc is its *)
(* position.  Every collaborator call is a pc value of its own ("the call  *)
(* is in flight"), because the SIGINT/SIGTERM handler installed in         *)
(* __init__ runs in the main thread between any two bytecodes, i.e. at     *)
(* every pc.  The checkpoint file is written in place by _auto_save:       *)
(* open(..., "w") truncates it, json.dump then fills it.                   *)
(***************************************************************************)
EXTENDS Naturals, Integers, Sequences, FiniteSets, TLC

\* ------------------------------------------------------------------ bounds
\* The largest number of candidates the retriever returns.
MaxPapers == 2
\* The largest number of shutdown signals delivered to the process.
MaxSignals == 1
\* The largest number of runs of the query, over all processes.
MaxRuns == 2
\* The largest number of registry lookups on one runner.
MaxLookups == 4
\* The longest processed and failed lists of a checkpointed state.
MaxEntries == 2
\* The longest query string.
MaxQueryLen == 3
\* The longest tag list in a model output.
MaxTags == 2

\* ------------------------------------------------------- program constants
\* main_runner.py:136  len(raw_text) < 300
MinContentLen == 300

\* Lengths of extracted text the extractor is modelled to return: none
\* (failed download), just under, exactly at the threshold.
TextLens == {0, MinContentLen - 1, MinContentLen}
\* No text has been extracted for the item (yet).
NoText == -1

\* The five stages of one item, in the order _process_paper calls them.
Stages == <<"fetch", "summarize", "embed", "index", "publish">>
StageSet == {Stages[i] : i \in 1..Len(Stages)}

\* _get_module's cls_map: the stage collaborators by module name.
cls_map == {"exa_scraper", "pdf_extractor", "gpt_summarizer", "vector_db",
            "obsidian_injector"}

\* The collaborators whose constructor can raise: ExaScraper (missing key),
\* GPTSummarizer (client / model load), VectorDB (_connect, _init_collection),
\* ObsidianInjector (vault path).  PDFExtractor.__init__ is `pass`.
CanFailConstruction == cls_map \ {"pdf_extractor"}

\* The lookups at the head of _process_paper, in order.
ProcessPaperModules == <<"pdf_extractor", "gpt_summarizer", "vector_db",
                         "obsidian_injector">>

\* Exception messages (str(e)) that end up as failure reasons.
ErrTooShort == "Extracted content too short."
ErrConstruct == "collaborator construction failed"
ErrFetch == "extractor raised"
ErrIndex == "indexer raised"
ErrPublish == "publisher raised"
ErrCheckpoint == "checkpoint write failed"
ErrSearch == "retriever raised"

VARIABLES
    pc,            \* position of the main flow
    idx,           \* enumerate index of the current paper, 1-based; 0 before
    papers,        \* len(papers): number of candidates search returned
    total_papers,  \* state.total_papers
    processed,     \* state.processed: sequence of items
    failed,        \* state.failed: sequence of [paper, error]
    modules,       \* self._modules: names of the constructed collaborators
    raw_text,      \* length of the current item's extracted text
    gpt_summary,   \* paper["gpt_summary"] of the current item
    embedding,     \* paper["embedding"] of the current item
    pending,       \* exception in flight while the finally clause runs
    err,           \* str(e) of the exception being handled / propagated
    disk,          \* the checkpoint file self.state_file
    indexed,       \* items inserted into the vector index
    published,     \* items whose note was written to the vault
    calls,         \* history: stages invoked per item, in order
    faults,        \* history: what went wrong per item
    signals,       \* history: the delivered shutdown signals
    last_save,     \* state.last_save, in readings of the clock since Start
    built,         \* history: instances constructed per collaborator name
    text_len,      \* history: length of the text extracted per item
    hash_seed,     \* the process's string-hash key (PYTHONHASHSEED)
    assigned,      \* history: the ids given to each item's title
    pid,           \* the process the runner lives in
    second,        \* the wall clock, in whole seconds
    files,         \* history: the state_file name of every run of the query
    cache,         \* summaries_cache: the file of the text being summarized
    arg,           \* argument of the function under study
    res            \* its result

vars == <<pc, idx, papers, total_papers, processed, failed, modules, raw_text,
          gpt_summary, embedding, pending, err, disk, indexed, published,
          calls, faults, signals, last_save, built, text_len, hash_seed,
          assigned, pid, second, files, cache, arg, res>>

Items == 1..MaxPapers

\* ------------------------------------------------------------- positions
\* Inside the try block of run_pipeline's loop (lines 114-116).
TryBody == {"begin", "fetch", "check", "summarize", "embed", "index",
            "index_ret", "publish", "publish_ret", "mark", "appended"}
\* A collaborator stage call is executing.
StageInFlight == {"fetch", "summarize", "embed", "index", "index_ret",
                  "publish", "publish_ret"}
\* No item is being processed: between two iterations of the loop, or in the
\* next iteration before _process_paper has invoked anything.
BetweenItems == {"loop", "begin"}
Terminal == {"returned", "exited", "raised", "crashed"}
Alive == pc \notin Terminal

\* ------------------------------------------------------- checkpoint file
NoFile == [kind |-> "none", total_papers |-> 0, processed |-> <<>>,
           failed |-> <<>>, last_save |-> 0]
\* open(self.state_file, "w") has truncated (or created) the file.
EmptyFile == [kind |-> "empty", total_papers |-> 0, processed |-> <<>>,
              failed |-> <<>>, last_save |-> 0]
\* json.dump stopped part-way.
PartialFile == [kind |-> "partial", total_papers |-> 0, processed |-> <<>>,
                failed |-> <<>>, last_save |-> 0]
\* PipelineState.to_json of the current state, fully written.
to_json == [kind |-> "doc", total_papers |-> total_papers,
            processed |-> processed, failed |-> failed,
            last_save |-> last_save]

Completed == Len(processed) + Len(failed)
DiskCompleted == Len(disk.processed) + Len(disk.failed)

Range(s) == {s[i] : i \in 1..Len(s)}
FailedItems == {failed[i].paper : i \in 1..Len(failed)}

\* The cache directory holds no file for the text (path.exists() is false).
NoEntry == [kind |-> "none", text |-> <<>>]

\* A new process: AthenaRunner() with an empty registry (lines 70-76), nothing
\* run yet.
InitRunner ==
    /\ idx = 0
    /\ papers = 0
    /\ total_papers = 0
    /\ processed = <<>>
    /\ failed = <<>>
    /\ modules = {}
    /\ raw_text = 0
    /\ gpt_summary = ""
    /\ embedding = "unset"
    /\ pending = "none"
    /\ err = ""
    /\ disk = NoFile
    /\ indexed = {}
    /\ published = {}
    /\ calls = [i \in Items |-> <<>>]
    /\ faults = [i \in Items |-> {}]
    /\ signals = <<>>
    /\ last_save = 0
    /\ built = [name \in cls_map |-> 0]
    /\ text_len = [i \in Items |-> NoText]
    /\ hash_seed = 0
    /\ assigned = [i \in Items |-> {}]
    /\ pid = 1
    /\ second = 0
    /\ files = <<>>
    /\ cache = NoEntry

Init ==
    /\ InitRunner
    /\ pc = "start"
    /\ arg = <<>>
    /\ res = <<>>

\* --------------------------------------------------- collaborator registry
\* The registry without its membership test: every lookup constructs.
_get_module_Uncached(ms, name) ==
    {[modules |-> ms \cup {name}, ok |-> TRUE, constructed |-> <<name>>]}
    \cup (IF name \in CanFailConstruction
          THEN {[modules |-> ms, ok |-> FALSE, constructed |-> <<>>]}
          ELSE {})

\* _get_module(name) on registry ms: the possible results, each the registry
\* afterwards, whether the lookup returned (ok) or the constructor raised,
\* and the instances it constructed.  A cached name is returned without
\* construction; a constructor that raises leaves the registry as it was, so
\* the next lookup constructs again.
_get_module(ms, name) ==
    IF name \in ms
    THEN {[modules |-> ms, ok |-> TRUE, constructed |-> <<>>]}
    ELSE {[modules |-> ms \cup {name}, ok |-> TRUE, constructed |-> <<name>>]}
         \cup (IF name \in CanFailConstruction
               THEN {[modules |-> ms, ok |-> FALSE, constructed |-> <<>>]}
               ELSE {})

\* The lookups of names[from..] one after the other, stopping at the first
\* constructor that raises.
RECURSIVE GetModulesFrom(_, _, _)
GetModulesFrom(ms, names, from) ==
    IF from > Len(names)
    THEN {[modules |-> ms, ok |-> TRUE, constructed |-> <<>>]}
    ELSE UNION {IF o.ok
                THEN {[r EXCEPT !.constructed = o.constructed \o @] :
                        r \in GetModulesFrom(o.modules, names, from + 1)}
                ELSE {o} : o \in _get_module(ms, names[from])}

\* The instance counts after the instances of the names in cs were
\* constructed.
Constructed(cs) ==
    [name \in cls_map |->
        built[name] + Cardinality({n \in 1..Len(cs) : cs[n] = name})]

\* ------------------------------------------------------ exception routing
\* Where the finally clause of the loop hands control once _auto_save has
\* returned: on to the next iteration, or out of run_pipeline with the
\* exception that was in flight.
AfterFinally ==
    CASE pending = "none" -> "loop"
      [] pending = "SystemExit" -> "exited"
      [] OTHER -> "raised"

\* An exception leaves run_pipeline: sys.exit ends the process with code 0,
\* anything else reaches the caller.
Propagated(exc) == IF exc = "SystemExit" THEN "exited" ELSE "raised"

\* The try statement without its except clause: the exception leaves
\* run_pipeline.
CatchException_Uncaught(msg) ==
    /\ pc' = "raised"
    /\ err' = msg
    /\ pending' = "none"

\* `except Exception as e` of the loop (lines 117-119): an Exception raised
\* in the try body is caught; control goes to the handler with str(e).
CatchException(msg) ==
    /\ pc' = "except"
    /\ err' = msg
    /\ pending' = "none"

\* The current item's stage `stage` is invoked.
Invoke(stage) == calls' = [calls EXCEPT ![idx] = Append(@, stage)]
Fault(kind) == faults' = [faults EXCEPT ![idx] = @ \cup {kind}]

\* ------------------------------------------------------------ run_pipeline
\* Line 102: pipeline_state_<strftime('%Y%m%d_%H%M%S')>.json in the query's
\* workspace: the file is named by the wall clock, to the second.
strftime(t) == t
\* self.state_file of the current run.
state_file == files[Len(files)]

\* Lines 95-103: the workspace directories, state_file and a fresh
\* PipelineState(query, 0, [], [], now, now).  The file of that name is the
\* one an earlier run of the query left, if it was named in the same second.
Start ==
    /\ pc = "start"
    /\ pc' = "get_scraper"
    /\ total_papers' = 0
    /\ processed' = <<>>
    /\ failed' = <<>>
    /\ last_save' = 0
    /\ files' = Append(files, strftime(second))
    /\ disk' = IF strftime(second) \in Range(files) THEN disk ELSE NoFile
    /\ UNCHANGED <<idx, papers, modules, raw_text, gpt_summary, embedding,
                   pending, err, indexed, published, calls, faults,
                   signals>>
    /\ UNCHANGED <<built, text_len, hash_seed, assigned, pid, second,
                   cache, arg, res>>

\* Line 105: the retriever is looked up outside any try block; a constructor
\* that raises leaves run_pipeline.
GetScraper ==
    /\ pc = "get_scraper"
    /\ \E o \in _get_module(modules, "exa_scraper") :
         /\ modules' = o.modules
         /\ built' = Constructed(o.constructed)
         /\ pc' = IF o.ok THEN "search" ELSE "raised"
         /\ err' = IF o.ok THEN err ELSE ErrConstruct
    /\ UNCHANGED <<idx, papers, total_papers, processed, failed, raw_text,
                   gpt_summary, embedding, pending, disk, indexed, published,
                   calls, faults, signals>>
    /\ UNCHANGED <<last_save, text_len, hash_seed, assigned, pid, second,
                   files, cache, arg,
                   res>>

\* Lines 106-111: search returns n candidates; none ends the run with [],
\* otherwise total_papers is set.  search itself may raise (mkdir).
SearchReturn ==
    /\ pc = "search"
    /\ \E n \in 0..MaxPapers :
         /\ papers' = n
         /\ total_papers' = n
         /\ pc' = IF n = 0 THEN "returned" ELSE "loop"
    /\ UNCHANGED <<idx, processed, failed, modules, raw_text, gpt_summary,
                   embedding, pending, err, disk, indexed, published, calls,
                   faults, signals>>
    /\ UNCHANGED <<last_save, built, text_len, hash_seed, assigned, pid,
                   second, files, cache, arg,
                   res>>

SearchRaise ==
    /\ pc = "search"
    /\ pc' = "raised"
    /\ err' = ErrSearch
    /\ UNCHANGED <<idx, papers, total_papers, processed, failed, modules,
                   raw_text, gpt_summary, embedding, pending, disk, indexed,
                   published, calls, faults, signals>>
    /\ UNCHANGED <<last_save, built, text_len, hash_seed, assigned, pid,
                   second, files, cache, arg,
                   res>>

\* Line 113 and lines 123-124: the next paper of the enumeration, or the end
\* of the loop and the return of state.processed.
Loop ==
    /\ pc = "loop"
    /\ IF idx < papers
       THEN /\ idx' = idx + 1
            /\ pc' = "begin"
       ELSE /\ idx' = idx
            /\ pc' = "returned"
    /\ raw_text' = 0
    /\ gpt_summary' = ""
    /\ embedding' = "unset"
    /\ UNCHANGED <<papers, total_papers, processed, failed, modules, pending,
                   err, disk, indexed, published, calls, faults, signals>>
    /\ UNCHANGED <<last_save, built, text_len, hash_seed, assigned, pid,
                   second, files, cache, arg,
                   res>>

\* ---------------------------------------------------------- _process_paper
\* Lines 115, 127-133: inside the try block, the four collaborators are
\* looked up, then extract_from_url is called.  A constructor that raises
\* here is an Exception in the try body.
BeginPaper ==
    /\ pc = "begin"
    /\ \E o \in GetModulesFrom(modules, ProcessPaperModules, 1) :
         /\ modules' = o.modules
         /\ built' = Constructed(o.constructed)
         /\ IF o.ok
            THEN /\ Invoke("fetch")
                 /\ pc' = "fetch"
                 /\ UNCHANGED <<err, pending, faults>>
            ELSE /\ CatchException(ErrConstruct)
                 /\ Fault("construct")
                 /\ UNCHANGED calls
    /\ UNCHANGED <<idx, papers, total_papers, processed, failed, raw_text,
                   gpt_summary, embedding, disk, indexed, published, signals>>
    /\ UNCHANGED <<last_save, text_len, hash_seed, assigned, pid, second,
                   files, cache, arg,
                   res>>

\* extract_from_url returns: the text, or "" when the download failed (no
\* exception, pdf_extractor.py:59-64).
FetchReturn ==
    /\ pc = "fetch"
    /\ \E len \in TextLens :
         /\ raw_text' = len
         /\ text_len' = [text_len EXCEPT ![idx] = len]
         /\ faults' = IF len = 0 THEN [faults EXCEPT ![idx] = @ \cup {"fetch"}]
                      ELSE faults
    /\ pc' = "check"
    /\ UNCHANGED <<idx, papers, total_papers, processed, failed, modules,
                   gpt_summary, embedding, pending, err, disk, indexed,
                   published, calls, signals>>
    /\ UNCHANGED <<last_save, built, hash_seed, assigned, pid, second,
                   files, cache, arg,
                   res>>

\* extract_from_url raises (e.g. pdf_url is None and the path cannot be
\* built, pdf_extractor.py:54).
FetchRaise ==
    /\ pc = "fetch"
    /\ CatchException(ErrFetch)
    /\ Fault("fetch")
    /\ UNCHANGED <<idx, papers, total_papers, processed, failed, modules,
                   raw_text, gpt_summary, embedding, disk, indexed, published,
                   calls, signals>>
    /\ UNCHANGED <<last_save, built, text_len, hash_seed, assigned, pid,
                   second, files, cache, arg,
                   res>>

\* Line 136 with the comparison off by one: text of exactly MinContentLen
\* characters is refused too.
TooShort_Inclusive(len) == len = 0 \/ len <= MinContentLen

\* Line 136: `not raw_text or len(raw_text) < 300`.
TooShort(len) == len = 0 \/ len < MinContentLen

\* hash(title) of the string type: keyed by the process's hash seed, so the
\* value is a function of the seed and the string together.
hash(seed, title) == [key |-> seed, of |-> title]
\* str(n) of an integer: one decimal string per integer.
str(n) == <<"str", n>>
\* paper.get("title", "") of candidate i: candidate i of the query is the
\* same paper in every run.
Title(i) == i
\* Lines 146-147: the candidates carry no "id" key (exa_scraper.py:116-131),
\* so the id is always str(hash(title)).
FallbackId(i) == str(hash(hash_seed, Title(i)))

\* Lines 135-150: the minimum-content check, pdf_path, the fallback id, then
\* the call of summarize.
CheckContent ==
    /\ pc = "check"
    /\ IF TooShort(raw_text)
       THEN /\ CatchException(ErrTooShort)
            /\ Fault("short")
            /\ UNCHANGED <<calls, assigned>>
       ELSE /\ assigned' = [assigned EXCEPT ![idx] = @ \cup {FallbackId(idx)}]
            /\ Invoke("summarize")
            /\ pc' = "summarize"
            /\ UNCHANGED <<err, pending, faults>>
    /\ UNCHANGED <<idx, papers, total_papers, processed, failed, modules,
                   raw_text, gpt_summary, embedding, disk, indexed, published,
                   signals>>
    /\ UNCHANGED <<last_save, built, text_len, hash_seed, pid, second,
                   files, cache, arg,
                   res>>

\* What summarize can hand back: the fields parsed from the model output,
\* the normalizer's fallback (the raw text with no tags, gpt_summarizer.py:
\* 104-107), the dict of a failed model call, the dict of an empty response.
Summaries == {"parsed", "fallback", "error", "empty"}

\* Line 151: paper["gpt_summary"] = summary_data.get("gpt_summary", "").  A
\* model-call error returns {"summary": "Error generating summary.", "tags":
\* []} and an empty response {"summary": "No summary generated.", "tags": []}
\* (gpt_summarizer.py:45-51): neither has the key "gpt_summary", so "" is
\* stored.
StoredSummary(r) ==
    CASE r = "parsed" -> "text"
      [] r = "fallback" -> "raw"
      [] OTHER -> ""

\* summarize followed by a check that refuses a summary without tags: the
\* fallback is stored (lines 151-152) and then fails the item.
SummarizeReturn_FallbackRejected ==
    /\ pc = "summarize"
    /\ \E r \in Summaries :
         /\ gpt_summary' = StoredSummary(r)
         /\ IF r = "fallback"
            THEN /\ CatchException("summary has no tags")
                 /\ UNCHANGED <<faults, calls>>
            ELSE /\ faults' = IF r = "error"
                              THEN [faults EXCEPT ![idx] = @ \cup {"summarize"}]
                              ELSE faults
                 /\ Invoke("embed")
                 /\ pc' = "embed"
                 /\ UNCHANGED <<pending, err>>
    /\ UNCHANGED <<idx, papers, total_papers, processed, failed, modules,
                   raw_text, embedding, disk, indexed, published, signals>>
    /\ UNCHANGED <<last_save, built, text_len, hash_seed, assigned, pid,
                   second, files, cache, arg,
                   res>>

\* summarize returns; it never raises: every outcome, the normalizer's
\* fallback included, is a returned dict.  Lines 151-158 store its fields and
\* call get_embedding.
SummarizeReturn ==
    /\ pc = "summarize"
    /\ \E r \in Summaries :
         /\ gpt_summary' = StoredSummary(r)
         /\ faults' = IF r = "error"
                      THEN [faults EXCEPT ![idx] = @ \cup {"summarize"}]
                      ELSE faults
    /\ Invoke("embed")
    /\ pc' = "embed"
    /\ UNCHANGED <<idx, papers, total_papers, processed, failed, modules,
                   raw_text, embedding, pending, err, disk, indexed, published,
                   signals>>
    /\ UNCHANGED <<last_save, built, text_len, hash_seed, assigned, pid,
                   second, files, cache, arg,
                   res>>

\* get_embedding returns: the vector, or [] when the model raised
\* (gpt_summarizer.py:57-62).  Lines 158-162 then call add_paper.
EmbedReturn ==
    /\ pc = "embed"
    /\ \E ok \in BOOLEAN :
         /\ embedding' = IF ok THEN "vector" ELSE "empty"
         /\ faults' = IF ok THEN faults
                      ELSE [faults EXCEPT ![idx] = @ \cup {"embed"}]
    /\ Invoke("index")
    /\ pc' = "index"
    /\ UNCHANGED <<idx, papers, total_papers, processed, failed, modules,
                   raw_text, gpt_summary, pending, err, disk, indexed,
                   published, signals>>
    /\ UNCHANGED <<last_save, built, text_len, hash_seed, assigned, pid,
                   second, files, cache, arg,
                   res>>

\* add_paper: collection.insert succeeded (vector_db.py:83); the call has not
\* returned yet (line 84).
IndexInsert ==
    /\ pc = "index"
    /\ indexed' = indexed \cup {idx}
    /\ pc' = "index_ret"
    /\ UNCHANGED <<idx, papers, total_papers, processed, failed, modules,
                   raw_text, gpt_summary, embedding, pending, err, disk,
                   published, calls, faults, signals>>
    /\ UNCHANGED <<last_save, built, text_len, hash_seed, assigned, pid,
                   second, files, cache, arg,
                   res>>

\* add_paper raises: the insert failed and the exception is re-raised
\* (vector_db.py:86-88).
IndexRaise ==
    /\ pc = "index"
    /\ CatchException(ErrIndex)
    /\ Fault("index")
    /\ UNCHANGED <<idx, papers, total_papers, processed, failed, modules,
                   raw_text, gpt_summary, embedding, disk, indexed, published,
                   calls, signals>>
    /\ UNCHANGED <<last_save, built, text_len, hash_seed, assigned, pid,
                   second, files, cache, arg,
                   res>>

\* add_paper returns; line 174 calls push_single_paper.
IndexReturn ==
    /\ pc = "index_ret"
    /\ Invoke("publish")
    /\ pc' = "publish"
    /\ UNCHANGED <<idx, papers, total_papers, processed, failed, modules,
                   raw_text, gpt_summary, embedding, pending, err, disk,
                   indexed, published, faults, signals>>
    /\ UNCHANGED <<last_save, built, text_len, hash_seed, assigned, pid,
                   second, files, cache, arg,
                   res>>

\* push_single_paper: the note is written (obsidian_injector.py:48); the call
\* has not returned yet (lines 49-50).
PublishWrite ==
    /\ pc = "publish"
    /\ published' = published \cup {idx}
    /\ pc' = "publish_ret"
    /\ UNCHANGED <<idx, papers, total_papers, processed, failed, modules,
                   raw_text, gpt_summary, embedding, pending, err, disk,
                   indexed, calls, faults, signals>>
    /\ UNCHANGED <<last_save, built, text_len, hash_seed, assigned, pid,
                   second, files, cache, arg,
                   res>>

\* push_single_paper with its exception swallowed: the call returns to
\* _process_paper as if the note had been published.
PublishRaise_Swallowed ==
    /\ pc \in {"publish", "publish_ret"}
    /\ pc' = "mark"
    /\ Fault("publish")
    /\ UNCHANGED <<idx, papers, total_papers, processed, failed, modules,
                   raw_text, gpt_summary, embedding, pending, err, disk,
                   indexed, published, calls, signals>>
    /\ UNCHANGED <<last_save, built, text_len, hash_seed, assigned, pid,
                   second, files, cache, arg,
                   res>>

\* push_single_paper raises, before the note is written (lines 44-48) or
\* after it (_cache_paper, line 49).
PublishRaise ==
    /\ pc \in {"publish", "publish_ret"}
    /\ CatchException(ErrPublish)
    /\ Fault("publish")
    /\ UNCHANGED <<idx, papers, total_papers, processed, failed, modules,
                   raw_text, gpt_summary, embedding, disk, indexed, published,
                   calls, signals>>
    /\ UNCHANGED <<last_save, built, text_len, hash_seed, assigned, pid,
                   second, files, cache, arg,
                   res>>

\* push_single_paper returns to _process_paper, before line 176.
PublishReturn ==
    /\ pc = "publish_ret"
    /\ pc' = "mark"
    /\ UNCHANGED <<idx, papers, total_papers, processed, failed, modules,
                   raw_text, gpt_summary, embedding, pending, err, disk,
                   indexed, published, calls, faults, signals>>
    /\ UNCHANGED <<last_save, built, text_len, hash_seed, assigned, pid,
                   second, files, cache, arg,
                   res>>

\* Line 176 with insert(0, paper) for append: the newest item goes first.
MarkProcessed_Prepend ==
    /\ pc = "mark"
    /\ processed' = <<idx>> \o processed
    /\ pc' = "appended"
    /\ UNCHANGED <<idx, papers, total_papers, failed, modules, raw_text,
                   gpt_summary, embedding, pending, err, disk, indexed,
                   published, calls, faults, signals>>
    /\ UNCHANGED <<last_save, built, text_len, hash_seed, assigned, pid,
                   second, files, cache, arg, res>>

\* Line 176: self.state.processed.append(paper).
MarkProcessed ==
    /\ pc = "mark"
    /\ processed' = Append(processed, idx)
    /\ pc' = "appended"
    /\ UNCHANGED <<idx, papers, total_papers, failed, modules, raw_text,
                   gpt_summary, embedding, pending, err, disk, indexed,
                   published, calls, faults, signals>>
    /\ UNCHANGED <<last_save, built, text_len, hash_seed, assigned, pid,
                   second, files, cache, arg,
                   res>>

\* _process_paper returns and the try block is left for the finally clause.
LeaveTry ==
    /\ pc = "appended"
    /\ pc' = "save_open"
    /\ UNCHANGED <<idx, papers, total_papers, processed, failed, modules,
                   raw_text, gpt_summary, embedding, pending, err, disk,
                   indexed, published, calls, faults, signals>>
    /\ UNCHANGED <<last_save, built, text_len, hash_seed, assigned, pid,
                   second, files, cache, arg,
                   res>>

\* Lines 118-119: the handler records (paper, str(e)) and falls into the
\* finally clause.
ExceptAppend ==
    /\ pc = "except"
    /\ failed' = Append(failed, [paper |-> idx, error |-> err])
    /\ pc' = "save_open"
    /\ UNCHANGED <<idx, papers, total_papers, processed, modules, raw_text,
                   gpt_summary, embedding, pending, err, disk, indexed,
                   published, calls, faults, signals>>
    /\ UNCHANGED <<last_save, built, text_len, hash_seed, assigned, pid,
                   second, files, cache, arg,
                   res>>

\* --------------------------------------------------------------- _auto_save
\* Lines 180-181, from the finally clause: last_save is set to now, then
\* open(self.state_file, "w") truncates the file in place.  If open raises,
\* the OSError leaves the finally clause and run_pipeline, replacing any
\* exception that was in flight.
SaveOpen ==
    /\ pc = "save_open"
    /\ last_save' = last_save + 1
    /\ \/ /\ disk' = EmptyFile
          /\ pc' = "save_write"
          /\ UNCHANGED err
       \/ /\ pc' = "raised"
          /\ err' = ErrCheckpoint
          /\ UNCHANGED disk
    /\ UNCHANGED <<idx, papers, total_papers, processed, failed, modules,
                   raw_text, gpt_summary, embedding, pending, indexed,
                   published, calls, faults, signals>>
    /\ UNCHANGED <<built, text_len, hash_seed, assigned, pid, second,
                   files, cache, arg,
                   res>>

\* Line 182: json.dump(self.state.to_json(), f) completes and the file is
\* closed, or the write raises part-way (the OSError leaves run_pipeline).
SaveWrite ==
    /\ pc = "save_write"
    /\ \/ /\ disk' = to_json
          /\ pc' = AfterFinally
          /\ UNCHANGED err
       \/ /\ disk' = PartialFile
          /\ pc' = "raised"
          /\ err' = ErrCheckpoint
    /\ UNCHANGED <<idx, papers, total_papers, processed, failed, modules,
                   raw_text, gpt_summary, embedding, pending, indexed,
                   published, calls, faults, signals>>
    /\ UNCHANGED <<last_save, built, text_len, hash_seed, assigned, pid,
                   second, files, cache, arg,
                   res>>

\* -------------------------------------------------------- _handle_interrupt
\* What the handler's own _auto_save(DATA_DIR) can do: nothing when no run has
\* created a state yet (line 179), else write the checkpoint, fail to open it,
\* or fail part-way through the write.
HandlerSaves ==
    IF pc = "start" THEN {"no_state"}
    ELSE {"saved", "open_failed", "write_failed"}

\* The checkpoint file after the handler's save h: the possible contents.
\* The handler's document carries its own reading of the clock.  At
\* "save_write" the main flow holds the same file open with part of its own
\* document buffered; the handler truncates the file and writes its document
\* through a second descriptor, then the exception it raises closes the main
\* flow's file, which flushes the buffered part over the handler's document
\* at the main flow's offset.  The two documents differ in last_save only, at
\* the end: the splice is the handler's document, the main flow's document
\* (its last_save was already buffered), or no document at all (the two
\* timestamps differ in length, isoformat omitting zero microseconds).
HandlerDisk(h) ==
    CASE h = "saved" /\ pc = "save_write" ->
           {[to_json EXCEPT !.last_save = last_save + 1], to_json,
            PartialFile}
      [] h = "saved" -> {[to_json EXCEPT !.last_save = last_save + 1]}
      [] h = "write_failed" -> {PartialFile}
      [] h = "open_failed" /\ pc = "save_write" -> {PartialFile}
      [] OTHER -> {disk}

\* Line 188: sys.exit(0) raises SystemExit, unless _auto_save raised first.
HandlerException(h) ==
    IF h \in {"saved", "no_state"} THEN "SystemExit" ELSE "OSError"

\* The position of the main flow after exception exc was raised at pc by the
\* handler: in the try body an Exception is caught by line 117 and anything
\* else runs the finally clause first; in the except clause the finally
\* clause runs with the exception in flight; elsewhere it leaves run_pipeline.
RaisedAt(exc) ==
    CASE pc \in TryBody /\ exc = "OSError" -> "except"
      [] pc \in TryBody /\ exc = "SystemExit" -> "save_open"
      [] pc = "except" -> "save_open"
      [] OTHER -> Propagated(exc)

\* SIGINT or SIGTERM is delivered: the handler runs in the main thread at
\* the current position of the main flow, whatever it is (lines 75-76,
\* 185-188).
Interrupt ==
    /\ Alive
    /\ Len(signals) < MaxSignals
    /\ \E h \in HandlerSaves :
         LET exc == HandlerException(h) IN
         /\ disk' \in HandlerDisk(h)
         /\ last_save' = IF h = "no_state" THEN last_save ELSE last_save + 1
         /\ pc' = RaisedAt(exc)
         /\ pending' = IF RaisedAt(exc) = "save_open" THEN exc ELSE pending
         /\ err' = IF exc = "OSError" THEN ErrCheckpoint ELSE err
         /\ signals' = Append(signals, [at |-> pc, item |-> idx,
                                        done |-> Completed,
                                        saved |-> (h = "saved")])
    /\ UNCHANGED <<idx, papers, total_papers, processed, failed, modules,
                   raw_text, gpt_summary, embedding, indexed, published,
                   calls, faults>>
    /\ UNCHANGED <<built, text_len, hash_seed, assigned, pid, second,
                   files, cache, arg,
                   res>>

\* The process dies (kill -9, power loss) at any point.
Crash ==
    /\ Alive
    /\ pc' = "crashed"
    /\ UNCHANGED <<idx, papers, total_papers, processed, failed, modules,
                   raw_text, gpt_summary, embedding, pending, err, disk,
                   indexed, published, calls, faults, signals>>
    /\ UNCHANGED <<last_save, built, text_len, hash_seed, assigned, pid,
                   second, files, cache, arg,
                   res>>

Next ==
    \/ Start
    \/ GetScraper
    \/ SearchReturn
    \/ SearchRaise
    \/ Loop
    \/ BeginPaper
    \/ FetchReturn
    \/ FetchRaise
    \/ CheckContent
    \/ SummarizeReturn
    \/ EmbedReturn
    \/ IndexInsert
    \/ IndexRaise
    \/ IndexReturn
    \/ PublishWrite
    \/ PublishRaise
    \/ PublishReturn
    \/ MarkProcessed
    \/ LeaveTry
    \/ ExceptAppend
    \/ SaveOpen
    \/ SaveWrite
    \/ Interrupt
    \/ Crash

Spec == Init /\ [][Next]_vars

\* One run in a process that is not killed: the flow and the shutdown
\* signals at every position.  (A kill only stops the flow where it is and
\* changes nothing else.)
NextSignals ==
    \/ Start
    \/ GetScraper
    \/ SearchReturn
    \/ SearchRaise
    \/ Loop
    \/ BeginPaper
    \/ FetchReturn
    \/ FetchRaise
    \/ CheckContent
    \/ SummarizeReturn
    \/ EmbedReturn
    \/ IndexInsert
    \/ IndexRaise
    \/ IndexReturn
    \/ PublishWrite
    \/ PublishRaise
    \/ PublishReturn
    \/ MarkProcessed
    \/ LeaveTry
    \/ ExceptAppend
    \/ SaveOpen
    \/ SaveWrite
    \/ Interrupt

SpecSignals == Init /\ [][NextSignals]_vars

\* ------------------------------------------------------------ further runs
\* The hash seeds a process can start with (random unless PYTHONHASHSEED is
\* set).
Seeds == {0, 1}

\* run_pipeline(query) is called again on the same runner, after it returned
\* or raised to its caller; time has passed, perhaps less than a second.  The
\* registry, the index, the vault and the files stay as they are.
Rerun ==
    /\ pc \in {"returned", "raised"}
    /\ Len(files) < MaxRuns
    /\ pc' = "start"
    /\ second' \in {second, second + 1}
    /\ idx' = 0
    /\ papers' = 0
    /\ raw_text' = 0
    /\ gpt_summary' = ""
    /\ embedding' = "unset"
    /\ pending' = "none"
    /\ err' = ""
    /\ calls' = [i \in Items |-> <<>>]
    /\ faults' = [i \in Items |-> {}]
    /\ text_len' = [i \in Items |-> NoText]
    /\ UNCHANGED <<total_papers, processed, failed, modules, disk, indexed,
                   published, signals, last_save, built, hash_seed, assigned,
                   pid, files, cache, arg,
                   res>>

\* The program is started again for the same query (lines 191-194), after
\* the earlier process ended in any way: a new runner with an empty registry
\* in a process with its own hash seed.
NewProcess ==
    /\ pc \in Terminal
    /\ Len(files) < MaxRuns
    /\ pc' = "start"
    /\ second' \in {second, second + 1}
    /\ hash_seed' \in Seeds
    /\ pid' = pid + 1
    /\ modules' = {}
    /\ built' = [name \in cls_map |-> 0]
    /\ signals' = <<>>
    /\ idx' = 0
    /\ papers' = 0
    /\ total_papers' = 0
    /\ processed' = <<>>
    /\ failed' = <<>>
    /\ last_save' = 0
    /\ raw_text' = 0
    /\ gpt_summary' = ""
    /\ embedding' = "unset"
    /\ pending' = "none"
    /\ err' = ""
    /\ calls' = [i \in Items |-> <<>>]
    /\ faults' = [i \in Items |-> {}]
    /\ text_len' = [i \in Items |-> NoText]
    /\ UNCHANGED <<disk, indexed, published, assigned, files, cache,
                   arg, res>>

\* Runs one after the other with no signal delivered and no crash.
NextRuns ==
    \/ Start
    \/ GetScraper
    \/ SearchReturn
    \/ SearchRaise
    \/ Loop
    \/ BeginPaper
    \/ FetchReturn
    \/ FetchRaise
    \/ CheckContent
    \/ SummarizeReturn
    \/ EmbedReturn
    \/ IndexInsert
    \/ IndexRaise
    \/ IndexReturn
    \/ PublishWrite
    \/ PublishRaise
    \/ PublishReturn
    \/ MarkProcessed
    \/ LeaveTry
    \/ ExceptAppend
    \/ SaveOpen
    \/ SaveWrite
    \/ Rerun
    \/ NewProcess

SpecRuns == Init /\ [][NextRuns]_vars

\* ------------------------------------------------- the registry on its own
\* A runner whose registry is looked up for any names in any order, as the
\* items and runs of its lifetime do.
InitRegistry ==
    /\ InitRunner
    /\ pc = "lookup"
    /\ arg = <<>>
    /\ res = <<>>

\* What a lookup hands back: the instance stored under the name (the
\* instance-th object of the name's class), or the constructor's exception.
Handle(name, instance) == [class |-> name, instance |-> instance]
ConstructorRaised == [class |-> "exception", instance |-> 0]

\* One call of _get_module(name); arg and res keep the names looked up and
\* what each lookup handed back.
Lookup ==
    /\ pc = "lookup"
    /\ Len(arg) < MaxLookups
    /\ \E name \in cls_map :
         \E o \in _get_module(modules, name) :
           /\ modules' = o.modules
           /\ built' = Constructed(o.constructed)
           /\ arg' = Append(arg, name)
           /\ res' = Append(res, IF o.ok THEN Handle(name, built'[name])
                                         ELSE ConstructorRaised)
    /\ UNCHANGED <<pc, idx, papers, total_papers, processed, failed, raw_text,
                   gpt_summary, embedding, pending, err, disk, indexed,
                   published, calls, faults, signals, last_save, text_len,
                   hash_seed, assigned, pid, second, files, cache>>

NextRegistry == Lookup

SpecRegistry == InitRegistry /\ [][NextRegistry]_vars

\* ------------------------------------------------ checkpoint save and load
\* Sequences over S of length at most n.
RECURSIVE SeqsUpTo(_, _)
SeqsUpTo(S, n) ==
    IF n = 0 THEN {<<>>}
    ELSE SeqsUpTo(S, n - 1)
         \cup {Append(q, x) : q \in SeqsUpTo(S, n - 1), x \in S}

\* datetime values: whole seconds and microseconds.
Datetimes == {[sec |-> c, usec |-> u] : c \in {0, 1}, u \in {0, 1}}
\* The papers of a checkpointed state.
Papers == {"p1", "p2"}
\* The entries of state.failed: tuples (paper, str(e)), lines 118-119.
FailedTuples ==
    {[type |-> "tuple", paper |-> i, error |-> e] :
        i \in Papers, e \in {ErrTooShort, ErrIndex}}
\* The PipelineState values (lines 32-39) a run can hold.
PipelineStates ==
    {[query |-> "q", total_papers |-> n, processed |-> ps, failed |-> fs,
      start_time |-> t0, last_save |-> t1] :
        n \in {0, Cardinality(Papers)},
        ps \in SeqsUpTo(Papers, MaxEntries),
        fs \in SeqsUpTo(FailedTuples, MaxEntries),
        t0 \in Datetimes, t1 \in Datetimes}

\* datetime.isoformat(): "...:SS" when the microseconds are zero, else
\* "...:SS.ffffff".
isoformat(t) == IF t.usec = 0 THEN <<t.sec>> ELSE <<t.sec, t.usec>>
\* datetime.fromisoformat: the fraction is optional and defaults to zero.
fromisoformat(x) == [sec |-> x[1], usec |-> IF Len(x) > 1 THEN x[2] ELSE 0]

\* to_json with "failed": self.failed, the tuples left as they are.
PipelineState_to_json_FailedAsIs(st) ==
    [query |-> st.query, total_papers |-> st.total_papers,
     processed |-> st.processed, failed |-> st.failed,
     start_time |-> isoformat(st.start_time),
     last_save |-> isoformat(st.last_save)]

\* PipelineState.to_json (lines 46-54): every failed tuple becomes a dict
\* {"paper": p, "error": e}, the two datetimes become isoformat strings.
PipelineState_to_json(st) ==
    [query |-> st.query, total_papers |-> st.total_papers,
     processed |-> st.processed,
     failed |-> [n \in 1..Len(st.failed) |->
                   [type |-> "dict", paper |-> st.failed[n].paper,
                    error |-> st.failed[n].error]],
     start_time |-> isoformat(st.start_time),
     last_save |-> isoformat(st.last_save)]

\* json.dump (line 182): a dict is written as an object, a list and a tuple
\* alike as an array.
json_dump(d) ==
    [d EXCEPT !.failed =
        [n \in 1..Len(@) |->
            [@[n] EXCEPT !.type = IF @ = "dict" THEN "object" ELSE "array"]]]
\* json.load: an object is read as a dict, an array as a list.
json_load(d) ==
    [d EXCEPT !.failed =
        [n \in 1..Len(@) |->
            [@[n] EXCEPT !.type = IF @ = "object" THEN "dict" ELSE "list"]]]

\* PipelineState.from_json (lines 56-65): item["paper"] and item["error"] of
\* every failed entry make a tuple again (a TypeError if the entry is a
\* list), the two strings are parsed back to datetimes.
PipelineState_from_json(data) ==
    IF \E n \in 1..Len(data.failed) : data.failed[n].type # "dict"
    THEN [raised |-> "TypeError"]
    ELSE [query |-> data.query, total_papers |-> data.total_papers,
          processed |-> data.processed,
          failed |-> [n \in 1..Len(data.failed) |->
                        [type |-> "tuple", paper |-> data.failed[n].paper,
                         error |-> data.failed[n].error]],
          start_time |-> fromisoformat(data.start_time),
          last_save |-> fromisoformat(data.last_save)]

\* Any state is saved and loaded back.
InitCheckpoint ==
    /\ InitRunner
    /\ pc = "save"
    /\ arg \in PipelineStates
    /\ res = <<>>

Others ==
    <<idx, papers, total_papers, processed, failed, modules, raw_text,
      gpt_summary, embedding, pending, err, disk, indexed, published, calls,
      faults, signals, last_save, built, text_len, hash_seed, assigned, pid,
      second, files, cache>>

\* json.dump(self.state.to_json(), f): res is the text of the file.
SaveCheckpoint ==
    /\ pc = "save"
    /\ pc' = "load"
    /\ res' = json_dump(PipelineState_to_json(arg))
    /\ UNCHANGED <<arg, Others>>

\* PipelineState.from_json(json.load(f)).
LoadCheckpoint ==
    /\ pc = "load"
    /\ pc' = "loaded"
    /\ res' = PipelineState_from_json(json_load(res))
    /\ UNCHANGED <<arg, Others>>

NextCheckpoint ==
    \/ SaveCheckpoint
    \/ LoadCheckpoint

SpecCheckpoint == InitCheckpoint /\ [][NextCheckpoint]_vars

\* ------------------------------------------------- the workspace of a query
\* The characters of a query: letters and digits, the two characters
\* _sanitize keeps besides them, and others (a space, a slash).
Chars == {"a", "7", "-", "_", " ", "/"}
isalnum(c) == c \in {"a", "7"}
\* Query strings: they begin with a letter or a digit.
Queries ==
    {q \in SeqsUpTo(Chars, MaxQueryLen) : q # <<>> /\ isalnum(q[1])}

\* str.strip(ch): the leading and the trailing run of ch removed.
RECURSIVE lstrip(_, _)
lstrip(text, ch) ==
    IF text # <<>> /\ Head(text) = ch THEN lstrip(Tail(text), ch) ELSE text
RECURSIVE rstrip(_, _)
rstrip(text, ch) ==
    IF text # <<>> /\ text[Len(text)] = ch
    THEN rstrip(SubSeq(text, 1, Len(text) - 1), ch)
    ELSE text
strip(text, ch) == rstrip(lstrip(text, ch), ch)
\* str.replace(old, new) for single characters.
replace(text, old, new) ==
    [n \in 1..Len(text) |-> IF text[n] = old THEN new ELSE text[n]]

\* _sanitize (lines 91-92): every character that is not alphanumeric, "-"
\* or "_" becomes "_"; then strip("_"), then replace(" ", "_").
_sanitize(text) ==
    replace(strip([n \in 1..Len(text) |->
                      IF isalnum(text[n]) \/ text[n] \in {"-", "_"}
                      THEN text[n] ELSE "_"],
                  "_"),
            " ", "_")

\* Line 95: workspace = DATA_DIR / _sanitize(query).
Workspace(query) == <<"DATA_DIR", _sanitize(query)>>

\* Two queries are given.
InitSanitize ==
    /\ InitRunner
    /\ pc = "queries"
    /\ arg \in Queries \X Queries
    /\ res = <<>>

\* run_pipeline names the workspace of each.
NameWorkspaces ==
    /\ pc = "queries"
    /\ pc' = "workspaces"
    /\ res' = <<Workspace(arg[1]), Workspace(arg[2])>>
    /\ UNCHANGED <<arg, Others>>

NextSanitize == NameWorkspaces

SpecSanitize == InitSanitize /\ [][NextSanitize]_vars

\* ------------------------------------------------- text of a model output
\* Text is a sequence of tokens [t, v]: the punctuation of JSON, words,
\* numbers, null, newlines, a quote character on its own ("q"), an invalid
\* backslash escape ("bad") and string literals "..." whose v is the text
\* between the quotes (the quotes of the literals inside it are escaped in
\* the text, which the nesting stands for).  A newline token tells how it is
\* spelt in the text it is part of: "nl0" is the newline character itself,
\* "nl1" the two characters \n, "nl2" the three characters \\n.
Tok(kind) == [t |-> kind, v |-> <<>>]
Str(text) == [t |-> "str", v |-> text]
Newline == Tok("nl0")

\* One level of backslash escapes is undone, inside literals too: \n becomes
\* the newline character, \\n becomes \n, \" becomes ".  ("nl3" is \\n
\* escaped once more, "q1" an escaped quote character, "bad1" an invalid
\* escape whose backslash is escaped.)
RECURSIVE Unescape(_)
Unescape(text) ==
    [n \in 1..Len(text) |->
        CASE text[n].t = "nl1" -> Newline
          [] text[n].t = "nl2" -> Tok("nl1")
          [] text[n].t = "nl3" -> Tok("nl2")
          [] text[n].t = "q1" -> Tok("q")
          [] text[n].t = "bad1" -> Tok("bad")
          [] text[n].t = "str" -> Str(Unescape(text[n].v))
          [] OTHER -> text[n]]

\* The text holds the character or word `kind`, inside its literals or
\* outside.
RECURSIVE Holds(_, _)
Holds(text, kind) ==
    \E n \in 1..Len(text) :
       \/ text[n].t = kind
       \/ text[n].t = "str" /\ Holds(text[n].v, kind)

\* str.replace("\n", "\n\n"): every newline character is doubled, wherever it
\* is.
RECURSIVE DoubleNewlines(_)
DoubleNewlines(text) ==
    IF text = <<>> THEN <<>>
    ELSE (CASE Head(text).t = "nl0" -> <<Newline, Newline>>
            [] Head(text).t = "str" -> <<Str(DoubleNewlines(Head(text).v))>>
            [] OTHER -> <<Head(text)>>)
         \o DoubleNewlines(Tail(text))

\* The length of the run of newline characters text begins with.
RECURSIVE NewlineRun(_)
NewlineRun(text) ==
    IF text # <<>> /\ Head(text).t = "nl0"
    THEN 1 + NewlineRun(Tail(text))
    ELSE 0

\* re.sub(r'\n{3,}', '\n\n', text): every run of three or more newline
\* characters becomes two.
RECURSIVE CollapseNewlines(_)
CollapseNewlines(text) ==
    IF text = <<>> THEN <<>>
    ELSE LET run == NewlineRun(text) IN
         CASE run >= 3 ->
                <<Newline, Newline>>
                \o CollapseNewlines(SubSeq(text, run + 1, Len(text)))
           [] Head(text).t = "str" ->
                <<Str(CollapseNewlines(Head(text).v))>>
                \o CollapseNewlines(Tail(text))
           [] OTHER -> <<Head(text)>> \o CollapseNewlines(Tail(text))

\* str.strip(): leading and trailing whitespace removed.
strip_ws(text) == strip(text, Newline)

\* ------------------------------------------------------- Python values
PyStr(text) == [type |-> "str", v |-> text]
PyList(items) == [type |-> "list", v |-> items]
PyDict(pairs) == [type |-> "dict", v |-> pairs]
PyInt == [type |-> "int", v |-> <<>>]
PyNone == [type |-> "None", v |-> <<>>]
\* bool(x) of a value as `or` tests it; the numbers of the texts are not 0.
Truthy(x) == x.type = "int" \/ (x.type # "None" /\ x.v # <<>>)
\* dict.get(key, default): the last pair with that key.
RECURSIVE get(_, _, _)
get(d, key, default) ==
    IF d.v = <<>> THEN default
    ELSE IF d.v[Len(d.v)].k = key THEN d.v[Len(d.v)].val
    ELSE get(PyDict(SubSeq(d.v, 1, Len(d.v) - 1)), key, default)

\* --------------------------------------------------------------- json.loads
JsonError == [ok |-> FALSE, val |-> PyNone, rest |-> <<>>]
SkipWs(text) == lstrip(text, Newline)

\* The JSON value text begins with, and the text after it.  A literal with a
\* newline character in it is refused (invalid control character), and so is
\* one with an invalid escape.
RECURSIVE ParseValue(_), ParseElements(_, _), ParseMembers(_, _)
ParseValue(text) ==
    LET ts == SkipWs(text) IN
    IF ts = <<>> THEN JsonError
    ELSE CASE Head(ts).t = "str" ->
                IF Holds(Head(ts).v, "nl0") \/ Holds(Head(ts).v, "bad")
                THEN JsonError
                ELSE [ok |-> TRUE, val |-> PyStr(Unescape(Head(ts).v)),
                      rest |-> Tail(ts)]
           [] Head(ts).t = "num" ->
                [ok |-> TRUE, val |-> PyInt, rest |-> Tail(ts)]
           [] Head(ts).t = "null" ->
                [ok |-> TRUE, val |-> PyNone, rest |-> Tail(ts)]
           [] Head(ts).t = "[" ->
                IF SkipWs(Tail(ts)) # <<>> /\ Head(SkipWs(Tail(ts))).t = "]"
                THEN [ok |-> TRUE, val |-> PyList(<<>>),
                      rest |-> Tail(SkipWs(Tail(ts)))]
                ELSE ParseElements(Tail(ts), <<>>)
           [] Head(ts).t = "{" ->
                IF SkipWs(Tail(ts)) # <<>> /\ Head(SkipWs(Tail(ts))).t = "}"
                THEN [ok |-> TRUE, val |-> PyDict(<<>>),
                      rest |-> Tail(SkipWs(Tail(ts)))]
                ELSE ParseMembers(Tail(ts), <<>>)
           [] OTHER -> JsonError

\* The elements of an array after "[" or ",", up to "]".
ParseElements(text, items) ==
    LET e == ParseValue(text)
        ts == SkipWs(e.rest)
    IN IF ~e.ok \/ ts = <<>> THEN JsonError
       ELSE CASE Head(ts).t = "," ->
                   ParseElements(Tail(ts), Append(items, e.val))
              [] Head(ts).t = "]" ->
                   [ok |-> TRUE, val |-> PyList(Append(items, e.val)),
                    rest |-> Tail(ts)]
              [] OTHER -> JsonError

\* The members "key": value of an object after "{" or ",", up to "}".
ParseMembers(text, pairs) ==
    LET ks == SkipWs(text) IN
    IF \/ ks = <<>>
       \/ Head(ks).t # "str"
       \/ Holds(Head(ks).v, "nl0") \/ Holds(Head(ks).v, "bad")
       \/ SkipWs(Tail(ks)) = <<>>
       \/ Head(SkipWs(Tail(ks))).t # ":"
    THEN JsonError
    ELSE LET e == ParseValue(Tail(SkipWs(Tail(ks))))
             ts == SkipWs(e.rest)
             pair == [k |-> Unescape(Head(ks).v), val |-> e.val]
         IN IF ~e.ok \/ ts = <<>> THEN JsonError
            ELSE CASE Head(ts).t = "," ->
                        ParseMembers(Tail(ts), Append(pairs, pair))
                   [] Head(ts).t = "}" ->
                        [ok |-> TRUE, val |-> PyDict(Append(pairs, pair)),
                         rest |-> Tail(ts)]
                   [] OTHER -> JsonError

\* json.loads(text): one value and nothing but whitespace after it, else
\* JSONDecodeError.
json_loads(text) ==
    LET e == ParseValue(text) IN
    IF e.ok /\ SkipWs(e.rest) = <<>> THEN [ok |-> TRUE, val |-> e.val]
    ELSE [ok |-> FALSE, val |-> PyNone]

\* ------------------------------------------------------ _parse_gpt_output
KeyTags == <<Tok("tags")>>
KeySummary == <<Tok("summary")>>
KeyGptSummary == <<Tok("gpt_summary")>>

\* Lines 67-69: result[1:-1] of a text that begins and ends with a quote,
\* then .decode("unicode_escape"): the quotes of the first and of the last
\* literal are cut off (the one literal's, if the text is one literal) and
\* one level of escapes is undone.
CutQuotes(result) ==
    IF Len(result) = 1 THEN result[1].v
    ELSE result[1].v \o <<Tok("q")>>
         \o SubSeq(result, 2, Len(result) - 1)
         \o <<Tok("q")>> \o result[Len(result)].v
Quoted(result) ==
    /\ result # <<>>
    /\ result[1].t = "str"
    /\ result[Len(result)].t = "str"

\* Line 71: re.search(r'\{.*\}', result, re.DOTALL): the span from the first
\* "{" to the last "}" of the text, braces inside literals counting too.
BracePositions(text, kind) ==
    {n \in 1..Len(text) :
        text[n].t = kind \/ (text[n].t = "str" /\ Holds(text[n].v, kind))}
Min(S) == CHOOSE n \in S : \A m \in S : n <= m
Max(S) == CHOOSE n \in S : \A m \in S : m <= n
\* Lines 71-75: the object parsed from the span, or the exception: no span
\* (ValueError), or a span that is not one JSON value (JSONDecodeError), as
\* is every span that begins or ends inside a literal.
ParseSpan(text) ==
    LET opens == BracePositions(text, "{")
        closes == BracePositions(text, "}")
    IN IF opens = {} \/ closes = {} THEN [ok |-> FALSE, val |-> PyNone]
       ELSE IF \/ Min(opens) >= Max(closes)
               \/ text[Min(opens)].t = "str"
               \/ text[Max(closes)].t = "str"
            THEN [ok |-> FALSE, val |-> PyNone]
            ELSE json_loads(SubSeq(text, Min(opens), Max(closes)))

\* Lines 99-103, the auto-fix: json.loads(summary); tags and summary are
\* replaced from the embedded object, in that order, and the new summary's
\* newlines are doubled.  A summary that does not parse leaves both as they
\* were; an embedded summary that is not a str raises at .replace, after
\* both were replaced, and the inner except clause swallows it.
AutoFix(summary, tags) ==
    LET embedded == json_loads(summary) IN
    IF ~embedded.ok
    THEN [gpt_summary |-> PyStr(summary), tags |-> tags]
    ELSE LET tags2 == get(embedded.val, KeyTags, PyList(<<>>))
             summary2 == get(embedded.val, KeySummary, PyStr(<<>>))
         IN IF summary2.type # "str"
            THEN [gpt_summary |-> summary2, tags |-> tags2]
            ELSE [gpt_summary |->
                     PyStr(strip_ws(DoubleNewlines(summary2.v))),
                  tags |-> tags2]

\* Lines 77-102: the fields of the parsed object, coerced and normalised.
Normalise(parsed) ==
    LET tags0 == get(parsed, KeyTags, PyList(<<>>))
        gpt == get(parsed, KeyGptSummary, PyStr(<<>>))
        summary0 == IF Truthy(gpt) THEN gpt
                    ELSE get(parsed, KeySummary, PyStr(<<>>))
        tags == IF tags0.type = "list" THEN tags0 ELSE PyList(<<>>)
        text == IF summary0.type = "str" THEN summary0.v ELSE <<>>
        summary == CollapseNewlines(strip_ws(DoubleNewlines(text)))
    IN IF /\ tags = PyList(<<>>)
          /\ strip_ws(summary) # <<>>
          /\ Head(strip_ws(summary)).t = "{"
          /\ \E n \in 1..Len(summary) : summary[n] = Str(KeyTags)
       THEN AutoFix(summary, tags)
       ELSE [gpt_summary |-> PyStr(summary), tags |-> tags]

\* The try block of lines 65-102: what it returns, or that it raised, and
\* the value the variable `result` has by then (line 69 rebinds it unless
\* the decoding raised).
TryParse(result) ==
    LET unquoted == IF Quoted(result) /\ ~Holds(CutQuotes(result), "bad")
                    THEN Unescape(CutQuotes(result))
                    ELSE result
        parsed == ParseSpan(unquoted)
    IN IF (Quoted(result) /\ Holds(CutQuotes(result), "bad")) \/ ~parsed.ok
       THEN [raised |-> TRUE, result |-> unquoted,
             value |-> [gpt_summary |-> PyNone, tags |-> PyNone]]
       ELSE [raised |-> FALSE, result |-> unquoted,
             value |-> Normalise(parsed.val)]

\* The function without its outer except clause: the exception reaches the
\* caller.
_parse_gpt_output_NoExcept(result) ==
    LET try == TryParse(result) IN
    IF try.raised THEN [raised |-> "Exception"] ELSE try.value

\* _parse_gpt_output (lines 64-107): the try block's value, or from the
\* outer except clause the text, stripped, with no tags.
_parse_gpt_output(result) ==
    LET try == TryParse(result) IN
    IF try.raised
    THEN [gpt_summary |-> PyStr(strip_ws(try.result)), tags |-> PyList(<<>>)]
    ELSE try.value

\* ---------------------------------------------------------- model outputs
\* The texts of seq one after the other with sep between them.
RECURSIVE Join(_, _)
Join(seq, sep) ==
    IF seq = <<>> THEN <<>>
    ELSE IF Len(seq) = 1 THEN seq[1]
    ELSE seq[1] \o sep \o Join(Tail(seq), sep)

Word == Tok("w")
TagWords == {"a", "b"}
\* ["a", "b"]: the array of the tags, each a literal.
ArrayText(tags) ==
    <<Tok("[")>>
    \o Join([n \in 1..Len(tags) |-> <<Str(<<Tok(tags[n])>>)>>], <<Tok(",")>>)
    \o <<Tok("]")>>
\* {"k1": v1, "k2": v2}: the object with the given members.
ObjectText(members) ==
    <<Tok("{")>>
    \o Join([n \in 1..Len(members) |->
                <<Str(members[n].k), Tok(":")>> \o members[n].val],
            <<Tok(",")>>)
    \o <<Tok("}")>>

\* What the model may give as the tags: a list of words, or something that
\* is not a list.
TagsValues ==
    {ArrayText(tags) : tags \in SeqsUpTo(TagWords, MaxTags)}
    \cup {<<Str(<<Tok("a")>>)>>, <<Tok("null")>>}
\* An object embedded in the summary, as the text of the summary literal:
\* its own summary is text with its newline spelt \\n or \n, text with a
\* paragraph break (two newlines), or null.
EmbeddedObjects ==
    {ObjectText(<<[k |-> KeyTags, val |-> ArrayText(<<"a", "b">>)],
                  [k |-> KeySummary, val |-> inner]>>) :
        inner \in {<<Str(<<Word, Tok("nl2"), Word>>)>>,
                   <<Str(<<Word, Tok("nl2"), Tok("nl2"), Word>>)>>,
                   <<Str(<<Word, Tok("nl1"), Word>>)>>,
                   <<Tok("null")>>}}
\* What the model may give as the summary: text without newlines, with one,
\* with three in a row, with a newline character unescaped, empty text, an
\* embedded object, or something that is not text.
SummaryValues ==
    {<<Str(text)>> :
        text \in {<<>>, <<Word>>, <<Word, Tok("nl1"), Word>>,
                  <<Word, Tok("nl1"), Tok("nl1"), Tok("nl1"), Word>>,
                  <<Word, Newline, Word>>} \cup EmbeddedObjects}
    \cup {<<Tok("num")>>, <<Tok("null")>>}
\* The members of an object: tags or not, a summary under either key or not.
MemberLists ==
    LET tagsM == {<<>>} \cup {<<[k |-> KeyTags, val |-> v]>> : v \in TagsValues}
        summaryM == {<<>>} \cup {<<[k |-> key, val |-> v]>> :
                                   key \in {KeySummary, KeyGptSummary},
                                   v \in SummaryValues}
    IN {t \o m : t \in tagsM, m \in summaryM}
\* The text around the object: nothing, prose, a stray brace.
Before == {<<>>, <<Word, Newline>>, <<Tok("{"), Word>>}
After == {<<>>, <<Newline, Word>>, <<Word, Tok("}")>>}
\* The body: an object, an object cut off before its closing brace, or none.
Bodies ==
    {ObjectText(m) : m \in MemberLists}
    \cup {SubSeq(ObjectText(m), 1, Len(ObjectText(m)) - 1) :
            m \in {<<[k |-> KeySummary, val |-> <<Str(<<Word>>)>>]>>}}
    \cup {<<>>}
PlainOutputs == {b \o body \o a : b \in Before, body \in Bodies, a \in After}

\* One more level of backslash escapes: the text as it is spelt inside a
\* literal.
RECURSIVE Escape(_)
Escape(text) ==
    [n \in 1..Len(text) |->
        CASE text[n].t = "nl0" -> Tok("nl1")
          [] text[n].t = "nl1" -> Tok("nl2")
          [] text[n].t = "nl2" -> Tok("nl3")
          [] text[n].t = "q" -> Tok("q1")
          [] text[n].t = "bad" -> Tok("bad1")
          [] text[n].t = "str" -> Str(Escape(text[n].v))
          [] OTHER -> text[n]]
\* The outputs the model sent as one quoted, escaped string; prose that
\* begins and ends with a quoted phrase; a quoted string with an invalid
\* escape.
QuotedOutputs ==
    {<<Str(Escape(text))>> : text \in {t \in PlainOutputs : ~Holds(t, "nl2")}}
    \cup {<<Str(<<Word>>), Word, Str(<<Word>>)>>, <<Str(<<Word, Tok("bad")>>)>>}
GptOutputs == PlainOutputs \cup QuotedOutputs

\* The summarizer is handed a model output.
InitNormalizer ==
    /\ InitRunner
    /\ pc = "parse"
    /\ arg \in GptOutputs
    /\ res = <<>>

\* _parse_gpt_output(result) returns.
ParseGptOutput ==
    /\ pc = "parse"
    /\ pc' = "parsed"
    /\ res' = _parse_gpt_output(arg)
    /\ UNCHANGED <<arg, Others>>

NextNormalizer == ParseGptOutput

SpecNormalizer == InitNormalizer /\ [][NextNormalizer]_vars

\* ------------------------------------------------------------- summarize
\* The largest number of calls of summarize for the text.
MaxCalls == 2

\* json.dumps(value, ensure_ascii=False): a str becomes a literal with one
\* more level of escapes, a list an array, a dict an object with its keys in
\* insertion order, None null.
RECURSIVE json_dumps(_)
json_dumps(x) ==
    CASE x.type = "str" -> <<Str(Escape(x.v))>>
      [] x.type = "int" -> <<Tok("num")>>
      [] x.type = "None" -> <<Tok("null")>>
      [] x.type = "list" ->
           <<Tok("[")>>
           \o Join([n \in 1..Len(x.v) |-> json_dumps(x.v[n])], <<Tok(",")>>)
           \o <<Tok("]")>>
      [] OTHER ->
           ObjectText([n \in 1..Len(x.v) |->
                         [k |-> Escape(x.v[n].k),
                          val |-> json_dumps(x.v[n].val)]])

\* The dict of line 102 / 107 as a value: its keys in the order written.
AsDict(parsed) ==
    PyDict(<<[k |-> KeyGptSummary, val |-> parsed.gpt_summary],
             [k |-> KeyTags, val |-> parsed.tags]>>)

\* A cache file holding text.
Entry(text) == [kind |-> "file", text |-> text]
\* _check_cache (lines 166-173): the text of the file, or None when there
\* is no file or reading it raised.
_check_cache(c) ==
    IF c.kind = "none" THEN {[hit |-> FALSE, text |-> <<>>]}
    ELSE {[hit |-> c.text # <<>>, text |-> c.text],
          [hit |-> FALSE, text |-> <<>>]}
\* _save_to_cache (lines 175-180): the file is written, or the write raised
\* and is logged (the file is left as it was).
_save_to_cache(c, content) == {Entry(content), c}

\* The dicts summarize returns without a summary from the model (lines 47
\* and 51).
ErrorSummary ==
    [summary |-> PyStr(<<Tok("Error generating summary.")>>),
     tags |-> PyList(<<>>)]
NoSummary ==
    [summary |-> PyStr(<<Tok("No summary generated.")>>),
     tags |-> PyList(<<>>)]

\* summarize(text) (lines 23-55) with cache file c, the model answering with
\* response if it is called: the possible results, each the dict returned,
\* where it came from and the cache file afterwards.  A hit returns the
\* cached text parsed; else the model is called: an exception returns the
\* error dict, an empty response the no-summary dict, and any other response
\* is parsed, the parsed dict saved as JSON and returned.
summarize(c, response) ==
    UNION {IF h.hit
           THEN {[value |-> _parse_gpt_output(h.text), source |-> "cache",
                  cache |-> c]}
           ELSE {[value |-> ErrorSummary, source |-> "error", cache |-> c]}
                \cup
                (IF strip_ws(response) = <<>>
                 THEN {[value |-> NoSummary, source |-> "empty", cache |-> c]}
                 ELSE LET parsed_result ==
                              _parse_gpt_output(strip_ws(response))
                      IN {[value |-> parsed_result, source |-> "model",
                           cache |-> c2] :
                            c2 \in _save_to_cache(
                                      c, json_dumps(AsDict(parsed_result)))}) :
           h \in _check_cache(c)}

\* A text is summarized more than once (in one run or in several); arg is
\* what the model answers for it, res the results of the calls so far.
InitSummarize ==
    /\ InitRunner
    /\ pc = "texts"
    /\ arg \in GptOutputs
    /\ res = <<>>

\* One call of summarize for the text.
Summarize ==
    /\ pc = "texts"
    /\ Len(res) < MaxCalls
    /\ \E o \in summarize(cache, arg) :
         /\ cache' = o.cache
         /\ res' = Append(res, [value |-> o.value, source |-> o.source,
                                 saved |-> o.cache # cache])
    /\ UNCHANGED <<pc, arg, idx, papers, total_papers, processed, failed,
                   modules, raw_text, gpt_summary, embedding, pending, err,
                   disk, indexed, published, calls, faults, signals,
                   last_save, built, text_len, hash_seed, assigned, pid,
                   second, files>>

NextSummarize == Summarize

SpecSummarize == InitSummarize /\ [][NextSummarize]_vars

\* ================================================================== claims
Last(s) == s[Len(s)]
NoDuplicates(s) == \A i, j \in 1..Len(s) : s[i] = s[j] => i = j
FailedPapers == [n \in 1..Len(failed) |-> failed[n].paper]
Candidates == 1..papers
CandidatesKnown == pc \notin {"start", "get_scraper", "search"}
\* The candidates in the retriever's order, item k left out.
RECURSIVE AllBut(_, _)
AllBut(n, k) ==
    IF n = 0 THEN <<>>
    ELSE IF n = k THEN AllBut(n - 1, k)
    ELSE Append(AllBut(n - 1, k), n)

\* C1: in every reachable state of a run, once the candidates are known,
\* len(processed) + len(failed) <= total_papers, and no candidate is in both
\* lists or more than once in either: each item enters exactly one of the two
\* terminal lists, exactly once.
C1_ExactlyOneList ==
    /\ CandidatesKnown => Completed <= total_papers
    /\ Range(processed) \cap FailedItems = {}
    /\ NoDuplicates(processed)
    /\ NoDuplicates(FailedPapers)

\* C2: a stage that fails for an item is the last stage invoked for that
\* item (no later stage runs, also after a summarizer model-call failure or an
\* empty embedding), and the item is in the failed list once the loop has
\* moved past it.
C2_StageFailureStopsItem ==
    \A i \in Items :
      \A st \in faults[i] \cap StageSet :
        /\ calls[i] # <<>> /\ Last(calls[i]) = st
        /\ (i < idx \/ pc = "returned") => i \in FailedItems

StageErrors == {ErrFetch, ErrTooShort, ErrIndex, ErrPublish}
Recorded(i) == i \in Range(processed) \cup FailedItems
\* Nothing went wrong in the run except that the indexer raised for item k.
OnlyIndexerFails(k) ==
    /\ signals = <<>>
    /\ faults = [i \in Items |-> IF i = k THEN {"index"} ELSE {}]

\* C3: an exception raised by a stage never leaves run_pipeline (it is caught
\* at the per-item boundary, so the run is never aborted with a stage's
\* error), a run that returns has attempted every candidate, and a run of n
\* candidates in which only the indexer failed, for item k, returns with the
\* n-1 other items processed and published, in order, and item k alone failed
\* with the indexer's error and not published.
C3_StageExceptionIsolated ==
    /\ pc = "raised" => err \notin StageErrors
    /\ pc = "returned" => \A i \in Candidates : Recorded(i)
    /\ \A k \in Candidates :
         (pc = "returned" /\ OnlyIndexerFails(k)) =>
            /\ processed = AllBut(papers, k)
            /\ failed = <<[paper |-> k, error |-> ErrIndex]>>
            /\ published = Candidates \ {k}
            /\ \A i \in Candidates \ {k} : calls[i] = Stages

\* A run of MaxPapers candidates has returned after the indexer raised for
\* item 1 and for nothing else: the later items were still processed.
C3_Witness ==
    /\ pc = "returned"
    /\ papers = MaxPapers
    /\ OnlyIndexerFails(1)
    /\ Len(processed) = MaxPapers - 1
    /\ Len(failed) = 1

\* C4: a run that is not interrupted ends (by returning or by raising to its
\* caller) with every candidate the retriever returned recorded in exactly one
\* of processed and failed, each failed entry with a reason: no item is
\* silently dropped.
C4_NoItemDropped ==
    (pc \in {"returned", "raised"} /\ signals = <<>>) =>
        /\ \A i \in Candidates :
             (i \in Range(processed)) # (i \in FailedItems)
        /\ \A n \in 1..Len(failed) : failed[n].error # ""

\* C5: the shutdown signal is acted on only between items: when it is
\* delivered while a stage call is in flight, the handler neither writes the
\* checkpoint nor takes the main flow out of the call; the call runs on.
C5_NoPreemption ==
    [][(Len(signals') > Len(signals) /\ pc \in StageInFlight)
          => (pc' = pc /\ disk' = disk)]_vars

\* The first item no stage of which had been invoked when signal s came.
NotStarted(s) == IF s.at = "begin" THEN s.item ELSE s.item + 1

\* C6: a signal delivered between items, after k items have completed, leads
\* to no stage call for item k+1 or any later item, and the run that then
\* exits leaves a checkpoint with exactly k completed items.
C6_InterruptStopsRun ==
    \A n \in 1..Len(signals) :
      signals[n].at \in BetweenItems =>
        /\ \A j \in Items : j >= NotStarted(signals[n]) => calls[j] = <<>>
        /\ pc = "exited" =>
             /\ disk.kind = "doc"
             /\ DiskCompleted = signals[n].done

\* C7: while any stage of an item is in flight the checkpoint on disk holds
\* the outcome of every earlier item, and the number of completed items on
\* disk never lags the number in memory by more than one (stated for the runs
\* no signal reaches, where every write of the file is the loop's own).
C7_CheckpointLag ==
    /\ (pc \in StageInFlight /\ idx > 1) => disk = to_json
    /\ (Alive /\ signals = <<>>) => Completed - DiskCompleted <= 1

\* C8: a checkpoint write that fails after an item does not abort the run:
\* run_pipeline never ends by raising the checkpoint error to its caller.
C8_SaveFailureTolerated ==
    (pc = "raised" /\ signals = <<>>) => err # ErrCheckpoint

\* C9: whenever the process crashes, also in the middle of _auto_save, the
\* checkpoint file is absent or holds one complete document, never an empty
\* or partial one (stated for the runs no signal reaches, where every write
\* of the file is the loop's own).
C9_AtomicSave ==
    (pc = "crashed" /\ signals = <<>>) => disk.kind \in {"none", "doc"}

\* C10: a collaborator whose construction fails is never recorded as a
\* per-item failure, and no stage of any item is invoked after it (the run is
\* aborted, the construction is not tried again for the next item).
C10_ConstructionFatal ==
    /\ \A n \in 1..Len(failed) : failed[n].error # ErrConstruct
    /\ \A i, j \in Items :
         ("construct" \in faults[i] /\ j > i) => calls[j] = <<>>

\* C11: once a lookup of a name has returned a handle, every later lookup of
\* that name on the same runner returns the identical handle, no second
\* instance is ever constructed for a name, and lookups of distinct names
\* never return the same handle.
C11_RegistryCaches ==
    /\ \A i, j \in 1..Len(res) :
         (i < j /\ arg[i] = arg[j] /\ res[i] # ConstructorRaised)
            => res[j] = res[i]
    /\ \A i, j \in 1..Len(res) :
         (arg[i] # arg[j] /\ res[i] # ConstructorRaised) => res[i] # res[j]
    /\ \A name \in cls_map : built[name] <= 1

\* A name is looked up and returned, then another name, then the first name
\* again, which returns the handle of the first lookup.
C11_Witness ==
    /\ pc = "lookup"
    /\ \E i, j, k \in 1..Len(res) :
         /\ i < j /\ j < k
         /\ arg[i] = arg[k] /\ arg[j] # arg[i]
         /\ res[i] # ConstructorRaised /\ res[j] # ConstructorRaised
         /\ res[k] = res[i]

\* C12: an item fails with the too-short reason exactly when its extracted
\* text is shorter than MinContentLen characters (the empty text of a failed
\* fetch included, text of exactly MinContentLen characters excluded), and
\* for such an item summarizer, embedder, indexer and publisher are never
\* invoked.
ShortText(i) == text_len[i] # NoText /\ text_len[i] < MinContentLen
\* No signal handler raised in the flow between the fetch of item i and the
\* check of line 136.
Undisturbed(i) ==
    \A n \in 1..Len(signals) :
       ~(signals[n].at = "check" /\ signals[n].item = i)
TooShortRecorded(i) == [paper |-> i, error |-> ErrTooShort] \in Range(failed)
C12_TooShortExactly ==
    \A i \in Items :
      /\ "short" \in faults[i] => ShortText(i)
      /\ TooShortRecorded(i) => (ShortText(i) /\ "short" \in faults[i])
      /\ ShortText(i) => calls[i] = <<"fetch">>
      /\ (ShortText(i) /\ Undisturbed(i) /\ i = idx /\ pc = "except")
           => (err = ErrTooShort /\ "short" \in faults[i])
      /\ (ShortText(i) /\ Undisturbed(i) /\ i < idx) => TooShortRecorded(i)

\* One candidate's text has exactly MinContentLen characters and is
\* processed, another's is one character shorter and is failed as too short
\* with nothing invoked after the fetch.
C12_Witness ==
    /\ pc = "returned"
    /\ \E i, j \in Items :
         /\ text_len[i] = MinContentLen /\ i \in Range(processed)
         /\ text_len[j] = MinContentLen - 1
         /\ TooShortRecorded(j)
         /\ calls[j] = <<"fetch">>

\* C13: the identifier given to an item that came without one is a
\* function of its title alone: all runs, in whatever process, give the same
\* title the same identifier.
C13_IdDeterministic ==
    \A i \in Items : Cardinality(assigned[i]) <= 1

\* What the caller of run_pipeline observes when the run ends: the returned
\* list, the exit of the process with its code (sys.exit(0), line 188), or
\* an exception.
Outcome ==
    CASE pc = "returned" -> [kind |-> "return", value |-> processed, code |-> 0]
      [] pc = "exited" -> [kind |-> "exit", value |-> <<>>, code |-> 0]
      [] OTHER -> [kind |-> "raise", value |-> <<>>, code |-> 1]
\* The three cases of a run that has ended.
ZeroCandidates == pc = "returned" /\ papers = 0
Interrupted == pc \in {"returned", "exited"} /\ signals # <<>>
CompletedWithFailures == pc = "returned" /\ papers > 0 /\ failed # <<>>

\* C15: the outcome the caller observes tells the three cases apart: the
\* outcome of a run that found no candidates (the empty list returned) is
\* the outcome of no completed run with failures and of no interrupted run,
\* and an interrupted run never has the outcome of a completed one.
C15_OutcomeDistinguishes ==
    /\ (pc = "returned" /\ Outcome.value = <<>>) => ZeroCandidates
    /\ Interrupted => Outcome.kind = "exit"

\* A run has been started and has ended by returning or by the handler's
\* exit.
RunEnded == files # <<>> /\ pc \in {"returned", "exited"}

\* C16: whenever a run ends, by completion (zero candidates included) or by
\* interrupt, the checkpoint file exists and holds the final in-memory state.
C16_FinalStateDurable ==
    RunEnded => disk = to_json

\* C17: after a shutdown signal, wherever it arrived in the run (inside
\* _auto_save included), the process exits and the file left on disk is one
\* complete document equal to the in-memory state at exit.
C17_InterruptLeavesCheckpoint ==
    (RunEnded /\ pc = "exited" /\ signals # <<>>)
       => (disk.kind = "doc" /\ disk = to_json)

\* C18: no two runs of the query use the same checkpoint file.
C18_DistinctStateFiles ==
    NoDuplicates(files)

\* C14: a state that is saved and loaded back is the state that was saved:
\* query, total_papers, the processed list in order, the failed list of
\* (item, reason) pairs in order, start_time and last_save.
C14_SaveLoadIdentity ==
    pc = "loaded" => res = arg

\* A state with two processed items, two failed pairs, one timestamp on a
\* whole second and one not, has been saved and loaded.
C14_Witness ==
    /\ pc = "loaded"
    /\ res = arg
    /\ Len(res.processed) = 2
    /\ Len(res.failed) = 2
    /\ res.failed[1] # res.failed[2]
    /\ res.start_time.usec = 0
    /\ res.last_save.usec # 0

\* C19: two distinct queries never get the same workspace directory.
C19_DistinctWorkspaces ==
    (pc = "workspaces" /\ arg[1] # arg[2]) => res[1] # res[2]

\* C20: for every model output the normalizer returns a value with a
\* summary and tags: it never raises and never returns nothing.
C20_NormalizerTotal ==
    pc = "parsed" => DOMAIN res = {"gpt_summary", "tags"}

\* The normalizer has returned for a quoted, escaped output whose object
\* holds another object embedded in its summary.
C20_Witness ==
    /\ pc = "parsed"
    /\ DOMAIN res = {"gpt_summary", "tags"}
    /\ Len(arg) = 1
    /\ arg[1].t = "str"
    /\ \E n \in 1..Len(arg[1].v) :
         arg[1].v[n].t = "str" /\ Holds(arg[1].v[n].v, "{")

\* C21: whatever the model output, the summary the normalizer returns is
\* text and the tags it returns are a list, also when both were taken from an
\* object embedded in the summary.
C21_NormalizerTyped ==
    pc = "parsed" => (res.gpt_summary.type = "str" /\ res.tags.type = "list")

\* A well-formed body: an object with a list of tag words and a summary that
\* is text without newlines, under the key "summary".
WellFormed(tags, text) ==
    ObjectText(<<[k |-> KeyTags, val |-> ArrayText(tags)],
                 [k |-> KeySummary, val |-> <<Str(text)>>]>>)
\* The model output is the well-formed body of tags and text with any text
\* of Before in front of it and any text of After behind it.
EmbedsWellFormed(tags, text) ==
    \E b \in Before, a \in After : arg = b \o WellFormed(tags, text) \o a
\* The value with exactly that summary and exactly those tags.
Exactly(tags, text) ==
    [gpt_summary |-> PyStr(text),
     tags |-> PyList([n \in 1..Len(tags) |-> PyStr(<<Tok(tags[n])>>)])]

\* C22: for a well-formed object with a tags list and a summary S embedded
\* in a larger text, whatever text precedes or follows it, the normalizer
\* returns exactly S and exactly that tag list in the same order.
C22_RoundTrip ==
    pc = "parsed" =>
       \A tags \in SeqsUpTo(TagWords, MaxTags) :
          EmbedsWellFormed(tags, <<Word>>) => res = Exactly(tags, <<Word>>)

\* No structured object was located or parsed in the model output: the try
\* block of the normalizer raised (no span, a span that is not JSON, or an
\* output that could not be unescaped).
FellThrough(result) == TryParse(result).raised
\* The fallback value for the input: the raw text, trimmed, and no tags.
RawFallback(result) ==
    [gpt_summary |-> PyStr(strip_ws(result)), tags |-> PyList(<<>>)]

\* C23: when no structured object can be located or parsed in the model
\* output, the normalizer returns the raw input text, trimmed, as the
\* summary, with an empty tag list.
C23_FallbackRawText ==
    (pc = "parsed" /\ FellThrough(arg)) => res = RawFallback(arg)

\* The current item's summary is the normalizer's fallback: summarize has
\* returned the raw text with no tags for it.
FallbackTaken == gpt_summary = StoredSummary("fallback")
\* The stages after summarize went well for the current item and no signal
\* handler raised in the flow.
LaterStagesSucceeded ==
    /\ faults[idx] = {}
    /\ signals = <<>>

StageAt(p) ==
    CASE p \in {"index", "index_ret"} -> "index"
      [] p \in {"publish", "publish_ret"} -> "publish"
      [] OTHER -> p
\* s is the first Len(s) elements of t.
IsPrefix(s, t) == Len(s) <= Len(t) /\ s = SubSeq(t, 1, Len(s))

FromObject(result) == ~TryParse(result).raised
\* The text has a run of three or more newline characters.
RECURSIVE HasLongNewlineRun(_)
HasLongNewlineRun(text) ==
    /\ text # <<>>
    /\ \/ NewlineRun(text) >= 3
       \/ HasLongNewlineRun(Tail(text))
\* Every newline character of the text has another newline character next
\* to it: it is part of a blank-line paragraph break.
ParagraphBreaksOnly(text) ==
    \A n \in 1..Len(text) :
       text[n].t = "nl0" =>
          \/ n > 1 /\ text[n - 1].t = "nl0"
          \/ n < Len(text) /\ text[n + 1].t = "nl0"

\* C26: a summary the normalizer took from a parsed object, the object
\* embedded in the summary included, has no run of three or more newlines
\* and no single newline: every newline is part of a blank-line break.
C26_NewlinesNormalised ==
    (pc = "parsed" /\ FromObject(arg) /\ res.gpt_summary.type = "str") =>
        /\ ~HasLongNewlineRun(res.gpt_summary.v)
        /\ ParagraphBreaksOnly(res.gpt_summary.v)

\* C27: a call of summarize served from the cache returns the same summary
\* and the same tags as the earlier call that wrote the cache entry,
\* whichever path the normalizer took in that call.
C27_CacheConsistent ==
    \A i, j \in 1..Len(res) :
       (i < j /\ res[i].saved /\ res[j].source = "cache") =>
           /\ res[j].value.gpt_summary = res[i].value.gpt_summary
           /\ res[j].value.tags = res[i].value.tags

\* push_single_paper has written the note of item i and returned: it did not
\* raise and no signal handler raised inside it.
PublishCompleted(i) ==
    /\ i \in published
    /\ "publish" \notin faults[i]
    /\ ~(i = idx /\ pc = "publish_ret")
    /\ \A n \in 1..Len(signals) :
          ~(signals[n].at = "publish_ret" /\ signals[n].item = i)
\* A stage of item i was invoked.
Started(i) == calls[i] # <<>>

\* C28: when the run has ended, by returning or by the signal handler's
\* exit, every item whose publish completed is in the processed list of the
\* checkpoint on disk, and every item a stage of which was started is in the
\* processed or in the failed list, wherever a shutdown signal arrived.
C28_PublishedIsRecorded ==
    pc \in {"returned", "exited"} =>
       \A i \in Items :
          /\ PublishCompleted(i) => i \in Range(disk.processed)
          /\ Started(i) => Recorded(i)

\* C29: an item in the failed list has no record in the vector index and no
\* published note, and when the run has returned the index holds only items
\* of the processed list (stated for the runs no signal reaches, where every
\* failure is a stage's own).
C29_FailedLeavesNothing ==
    signals = <<>> =>
       /\ \A i \in FailedItems : i \notin indexed /\ i \notin published
       /\ pc = "returned" => indexed \subseteq Range(processed)

\* s is a subsequence of the candidate list <<1, ..., papers>>: its elements
\* are candidates and appear in the candidates' order, none twice.
SubsequenceOfCandidates(s) ==
    /\ Range(s) \subseteq Candidates
    /\ \A m, n \in 1..Len(s) : m < n => s[m] < s[n]

\* C30: in every reachable state the processed list and the failed list are
\* each a subsequence of the candidate list search returned: item i precedes
\* item j in a list whenever i precedes j among the candidates.
C30_ListsKeepOrder ==
    /\ SubsequenceOfCandidates(processed)
    /\ SubsequenceOfCandidates(FailedPapers)

\* A run of MaxPapers candidates has returned with all of them processed,
\* the first candidate first in the list and the last candidate last.
C30_Witness ==
    /\ pc = "returned"
    /\ papers = MaxPapers
    /\ Len(processed) = MaxPapers
    /\ processed[1] = 1
    /\ Last(processed) = MaxPapers

====
